---- MODULE Spec2Model ----
(***************************************************************************)
(* Coffee AI Assistant: the FastAPI service of main.py, its two entry      *)
(* points (app.py and main.py run as a script) and the telemetry setup of  *)
(* telemetry_monocle.py.                                                   *)
(*                                                                         *)
(* Python strings are sequences of one-character strings; the literal      *)
(* texts of the source are sequences of one chunk each, so that an         *)
(* f-string is a concatenation and "contains" is a sub-sequence test.      *)
(* An Optional[str] is a tagged tuple: <<"None">> or <<"str", s>>.         *)
(***************************************************************************)
EXTENDS Integers, Sequences, FiniteSets, TLC

\* ------------------------------------------------------------------ bounds
\* Number of POST /ask-coffee requests in flight at the same time.
NReq == 2

\* ------------------------------------------------------------- input sets
\* Question strings a client sends: empty, whitespace only, and a word
\* padded with whitespace.
Questions == {<< >>, <<" ">>, <<" ", "a", "b", " ">>}

\* The value of the "question" member of a request body: omitted, JSON null,
\* a JSON string, or a JSON value that is no string (a list).
Bodies ==
    {<<"absent">>, <<"null">>, <<"list">>} \cup {<<"str", s>> : s \in Questions}

\* OPENAI_API_KEY in the process environment: unset, or set to a key the
\* provider accepts.
EnvKeys == {<<"None">>, <<"str", <<"sk-good">>>>}

\* Messages carried by the exceptions the provider client raises.
Msgs == {<<"e", "r", "r">>}

\* ------------------------------------------------------ the python values
NoneV == <<"None">>

PyStr(s) == <<"str", s>>

\* Mutant of Truthy: a whitespace-only string counts as empty.
TruthyStripped(v) == v[1] = "str" /\ \E i \in 1..Len(v[2]) : v[2][i] # " "

\* Python truthiness of an Optional[str]: None and "" are falsy.
Truthy(v) == v[1] = "str" /\ Len(v[2]) > 0

\* str(e) of an exception built with a message.
StrOf(e) == e.msg

\* ------------------------------------------- exception classes (import openai)
\* The base class of each exception class the handler can meet.
BaseOf(c) ==
    CASE c = "AuthenticationError" -> "APIStatusError"
      [] c = "RateLimitError" -> "APIStatusError"
      [] c = "BadRequestError" -> "APIStatusError"
      [] c = "APIStatusError" -> "APIError"
      [] c = "APIError" -> "OpenAIError"
      [] c = "OpenAIError" -> "Exception"
      [] c = "IndexError" -> "Exception"
      [] c = "ValueError" -> "Exception"
      [] OTHER -> "object"

RECURSIVE IsSubclass(_, _)
IsSubclass(c, base) ==
    IF c = base THEN TRUE
    ELSE IF c = "object" THEN FALSE
    ELSE IsSubclass(BaseOf(c), base)

\* What chat.completions.create can raise.
RaisedClasses ==
    {"AuthenticationError", "RateLimitError", "BadRequestError", "ValueError"}

\* What chat.completions.create can return: a response whose choices carry
\* the message contents (a content is an Optional[str]).
ChoiceLists ==
    {<< >>, <<PyStr(<<"t">>)>>}

Outcomes ==
    {[kind |-> "return", choices |-> cs] : cs \in ChoiceLists}
    \cup {[kind |-> "raise", cls |-> c, msg |-> m] : c \in RaisedClasses, m \in Msgs}

\* The provider accepts only the good key: with any other key the call
\* cannot return a completion.
ProviderCan(key, o) == o.kind = "return" => key = <<"sk-good">>

\* ------------------------------------------------------------ main.py texts
DefaultQuestion == <<"What are the top 5 coffee brewing methods and their characteristics?">>

PlaceholderKey == <<"your-openai-api-key-here">>

SystemContent == <<"You are a knowledgeable coffee expert and barista.">>

PromptHead ==
    <<"You are a coffee expert and barista with deep knowledge about coffee beans, brewing methods, equipment, and coffee culture. Please answer the following coffee question in a helpful, informative, and engaging way: Question: ">>

PromptTail ==
    <<" Please provide a detailed answer that would be helpful to someone interested in coffee.">>

\* Mutant of EnvelopeModel: the envelope names another model than the call.
EnvelopeModelOther == "gpt-4"

CallModel == "gpt-3.5-turbo"

EnvelopeModel == "gpt-3.5-turbo"

\* "U+2615" stands for the hot-beverage character of the source.
PersonaLabel == "U+2615 AI Barista"

IndexErrorMsg == <<"list index out of range">>

AuthDetail ==
    <<"OpenAI API key not configured or invalid. Please set OPENAI_API_KEY environment variable.">>

RateDetail == <<"OpenAI API rate limit exceeded. Please try again later.">>

APIErrorPrefix == <<"OpenAI API error: ">>

UnexpectedPrefix == <<"Failed to get coffee advice: ">>

\* --------------------------------------------------------------- the state
VARIABLES
    entry,            \* the script the process was started from
    envKey,           \* OPENAI_API_KEY of the environment
    proc,             \* "start", "configured", "serving"
    telemetryCalls,   \* invocations of configure_monocle_telemetry
    telemetryResult,  \* its return value: "unset", "True" or "None"
    openai_client,    \* the module-level client handle of main.py
    req,              \* per request: position, body and the handler's locals
    calls,            \* per request: its chat.completions.create invocations
    resp,             \* per request: the HTTP response
    history,          \* "clean"; "failed" once a POST was answered with an error;
                      \* "recovered" once a POST was answered 200 after that
    rootResp          \* the response of a GET / the client has not read yet

vars ==
    <<entry, envKey, proc, telemetryCalls, telemetryResult, openai_client,
      req, calls, resp, history, rootResp>>

Reqs == 1..NReq

NoResp == [status |-> 0]

NoOutcome == [kind |-> "none"]

\* A free slot. question is the handler's local variable.
IdleReq == [st |-> "idle", body |-> NoneV, question |-> NoneV, outcome |-> NoOutcome]

\* ----------------------------------------------------------------- startup
\* os.getenv("OPENAI_API_KEY", "your-openai-api-key-here")
GetenvKey(env) == IF env = NoneV THEN PlaceholderKey ELSE env[2]

\* openai.OpenAI(api_key=...)
NewClient(env) == [api_key |-> GetenvKey(env)]

Init ==
    /\ entry \in {"app.py", "main.py"}
    /\ envKey \in EnvKeys
    /\ proc = "start"
    /\ telemetryCalls = 0
    /\ telemetryResult = "unset"
    /\ openai_client = NoneV
    /\ req = [r \in Reqs |-> IdleReq]
    /\ calls = [r \in Reqs |-> << >>]
    /\ resp = [r \in Reqs |-> NoResp]
    /\ history = "clean"
    /\ rootResp = NoResp

\* app.py line 16: the telemetry setup runs at import time, before the
\* server is started; a failure of setup_monocle_telemetry is caught and the
\* routine returns None.
ConfigureTelemetry(ok) ==
    /\ proc = "start"
    /\ entry = "app.py"
    /\ telemetryCalls' = telemetryCalls + 1
    /\ telemetryResult' = IF ok THEN "True" ELSE "None"
    /\ proc' = "configured"
    /\ UNCHANGED <<entry, envKey, openai_client, req, calls, resp, history, rootResp>>

\* app.py lines 18-29: uvicorn.run("main:app") imports main (which creates
\* the client) and starts the listener.
StartFromApp ==
    /\ proc = "configured"
    /\ entry = "app.py"
    /\ openai_client' = NewClient(envKey)
    /\ proc' = "serving"
    /\ UNCHANGED <<entry, envKey, telemetryCalls, telemetryResult, req, calls, resp, history,
                   rootResp>>

\* main.py run as a script: the module body creates the client and lines
\* 209-211 start the listener; telemetry_monocle is never imported.
StartFromMain ==
    /\ proc = "start"
    /\ entry = "main.py"
    /\ openai_client' = NewClient(envKey)
    /\ proc' = "serving"
    /\ UNCHANGED <<entry, envKey, telemetryCalls, telemetryResult, req, calls, resp, history,
                   rootResp>>

\* ------------------------------------------------- main.py, the handlers
\* class CoffeeQuestion(BaseModel): question: Optional[str] = None.
\* The parsed field, or "invalid" when the body fails validation.
ParseCoffeeQuestion(body) ==
    CASE body[1] = "absent" -> NoneV
      [] body[1] = "null" -> NoneV
      [] body[1] = "str" -> body
      [] OTHER -> <<"invalid">>

\* ask_coffee_endpoint line 203:
\* question = coffee_question.question if coffee_question.question else None
EndpointQuestion(v) == IF Truthy(v) THEN v ELSE NoneV

\* Mutant of EffectiveQuestion: the default text is not substituted.
EffectiveQuestionNoDefault(v) == IF ~Truthy(v) THEN << >> ELSE v[2]

\* ask_coffee_question lines 97-98: if not question: question = <default>
EffectiveQuestion(v) == IF ~Truthy(v) THEN DefaultQuestion ELSE v[2]

\* lines 103-108: the f-string around {question}
CoffeePrompt(q) == PromptHead \o q \o PromptTail

\* lines 111-120: the arguments of chat.completions.create
CreateArgs(r, q) ==
    [rid |-> r,
     model |-> CallModel,
     messages |-> <<[role |-> "system", content |-> SystemContent],
                    [role |-> "user", content |-> CoffeePrompt(q)]>>,
     max_tokens |-> 500,
     temperature |-> "0.7"]

\* Mutant of IssueCall: the completion request is issued twice.
IssueCallTwice(r, q) ==
    [calls EXCEPT ![r] = Append(Append(@, CreateArgs(r, q)), CreateArgs(r, q))]

\* The handler calls create once per request.
IssueCall(r, q) == [calls EXCEPT ![r] = Append(@, CreateArgs(r, q))]

\* lines 111-123: what is raised inside the try block, if anything: the
\* exception of the call, or the IndexError of response.choices[0] when the
\* response carries no choice.
NoException == [cls |-> "none", msg |-> << >>]

RaisedInTry(o) ==
    IF o.kind = "raise" THEN [cls |-> o.cls, msg |-> o.msg]
    ELSE IF Len(o.choices) = 0 THEN [cls |-> "IndexError", msg |-> IndexErrorMsg]
    ELSE NoException

\* Mutant of ExceptClauses: the APIError clause comes first.
ExceptClausesAPIFirst == <<"APIError", "AuthenticationError", "RateLimitError", "Exception">>

\* lines 134-157: the except clauses, in source order.
ExceptClauses == <<"AuthenticationError", "RateLimitError", "APIError", "Exception">>

\* The first clause whose class the exception is an instance of.
MatchingClause(e) ==
    LET hits == {i \in 1..Len(ExceptClauses) : IsSubclass(e.cls, ExceptClauses[i])}
    IN  ExceptClauses[CHOOSE i \in hits : \A j \in hits : i <= j]

\* The HTTPException each clause raises.
AuthClause(e) == [kind |-> "raise", status_code |-> 401, detail |-> AuthDetail]

RateClause(e) == [kind |-> "raise", status_code |-> 429, detail |-> RateDetail]

\* Mutant of APIErrorClause: the provider's message is left out.
APIErrorClauseNoMessage(e) ==
    [kind |-> "raise", status_code |-> 500, detail |-> APIErrorPrefix]

APIErrorClause(e) ==
    [kind |-> "raise", status_code |-> 500, detail |-> APIErrorPrefix \o StrOf(e)]

ExceptionClause(e) ==
    [kind |-> "raise", status_code |-> 500, detail |-> UnexpectedPrefix \o StrOf(e)]

HandleException(e) ==
    LET c == MatchingClause(e)
    IN  CASE c = "AuthenticationError" -> AuthClause(e)
          [] c = "RateLimitError" -> RateClause(e)
          [] c = "APIError" -> APIErrorClause(e)
          [] OTHER -> ExceptionClause(e)

\* lines 126-132: the success envelope.
Envelope(q, o) ==
    [status |-> "success",
     question |-> q,
     ai_response |-> o.choices[1],
     model_used |-> EnvelopeModel,
     coffee_expert |-> PersonaLabel]

\* ask_coffee_question after the call came back with outcome o; q is the
\* local variable question.
AskCoffeeResult(q, o) ==
    LET e == RaisedInTry(o)
    IN  IF e.cls = "none" THEN [kind |-> "return", value |-> Envelope(q, o)]
        ELSE HandleException(e)

\* FastAPI: a returned dict is a 200 JSON body, a raised HTTPException a
\* response of its status code with body {"detail": detail}.
HTTPResponse(result) ==
    IF result.kind = "return" THEN [status |-> 200, body |-> result.value]
    ELSE [status |-> result.status_code, body |-> [detail |-> result.detail]]

\* root(), lines 62-67.
RootBody ==
    [message |-> "Welcome to Coffee AI Assistant!",
     description |-> "Use POST /ask-coffee to ask questions about coffee",
     example |-> "POST /ask-coffee with body: {'question': 'What is the best brewing method for coffee?'}"]

\* Mutant of Root: the route answers 500 while no credential is configured.
RootNeedsKey ==
    IF openai_client.api_key = PlaceholderKey
    THEN [status |-> 500, body |-> [detail |-> AuthDetail]]
    ELSE [status |-> 200, body |-> RootBody]

Root == [status |-> 200, body |-> RootBody]

\* The client of main.py is the synchronous openai.OpenAI and the handler
\* calls it without await: while a call is out the event loop runs nothing.
LoopFree == \A r \in Reqs : req[r].st # "calling"

\* ----------------------------------------------------------------- actions
\* A client sends POST /ask-coffee on the lowest free slot.
ClientPosts(r, body) ==
    /\ proc = "serving"
    /\ req[r].st = "idle"
    /\ \A s \in 1..(r - 1) : req[s].st # "idle"
    /\ req' = [req EXCEPT ![r] = [IdleReq EXCEPT !.st = "sent", !.body = body]]
    /\ UNCHANGED <<entry, envKey, proc, telemetryCalls, telemetryResult, openai_client,
                   calls, resp, history, rootResp>>

\* The body fails validation: FastAPI answers 422 and no handler runs.
RejectPost(r) ==
    /\ proc = "serving"
    /\ LoopFree
    /\ req[r].st = "sent"
    /\ ParseCoffeeQuestion(req[r].body) = <<"invalid">>
    /\ req' = [req EXCEPT ![r].st = "done"]
    /\ resp' = [resp EXCEPT ![r] = [status |-> 422, body |-> [detail |-> <<"validation">>]]]
    /\ UNCHANGED <<entry, envKey, proc, telemetryCalls, telemetryResult, openai_client,
                   calls, history, rootResp>>

\* Mutant of HandlePost: the question is read from a module-level variable
\* that the latest arrival overwrote.
HandlePostShared(r) ==
    /\ proc = "serving"
    /\ LoopFree
    /\ req[r].st = "sent"
    /\ ParseCoffeeQuestion(req[r].body) # <<"invalid">>
    /\ LET sent == {s \in Reqs : req[s].st = "sent"
                                 /\ ParseCoffeeQuestion(req[s].body) # <<"invalid">>}
           last == CHOOSE s \in sent : \A t \in sent : t <= s
           question == EndpointQuestion(ParseCoffeeQuestion(req[last].body))
           q == EffectiveQuestion(question)
       IN  /\ req' = [req EXCEPT ![r].st = "calling", ![r].question = PyStr(q)]
           /\ calls' = IssueCall(r, q)
    /\ UNCHANGED <<entry, envKey, proc, telemetryCalls, telemetryResult, openai_client,
                   resp, history, rootResp>>

\* ask_coffee_endpoint and ask_coffee_question up to the provider call.
HandlePost(r) ==
    /\ proc = "serving"
    /\ LoopFree
    /\ req[r].st = "sent"
    /\ ParseCoffeeQuestion(req[r].body) # <<"invalid">>
    /\ LET question == EndpointQuestion(ParseCoffeeQuestion(req[r].body))
           q == EffectiveQuestion(question)
       IN  /\ req' = [req EXCEPT ![r].st = "calling", ![r].question = PyStr(q)]
           /\ calls' = IssueCall(r, q)
    /\ UNCHANGED <<entry, envKey, proc, telemetryCalls, telemetryResult, openai_client,
                   resp, history, rootResp>>

\* What the service has been through once a POST is answered with status.
HistoryAfter(status) ==
    IF status # 200 /\ history = "clean" THEN "failed"
    ELSE IF status = 200 /\ history = "failed" THEN "recovered"
    ELSE history

\* Mutant of ProviderResponds: an error response takes the process down.
ProviderRespondsFatal(r, o) ==
    /\ req[r].st = "calling"
    /\ ProviderCan(openai_client.api_key, o)
    /\ LET response == HTTPResponse(AskCoffeeResult(req[r].question[2], o))
       IN  /\ resp' = [resp EXCEPT ![r] = response]
           /\ history' = HistoryAfter(response.status)
           /\ proc' = IF response.status # 200 THEN "crashed" ELSE proc
    /\ req' = [req EXCEPT ![r].st = "done", ![r].outcome = o]
    /\ UNCHANGED <<entry, envKey, telemetryCalls, telemetryResult, openai_client,
                   calls, rootResp>>

\* The call comes back (returns or raises); the handler builds the envelope
\* or maps the exception, and the response is sent.
ProviderResponds(r, o) ==
    /\ proc = "serving"
    /\ req[r].st = "calling"
    /\ ProviderCan(openai_client.api_key, o)
    /\ LET response == HTTPResponse(AskCoffeeResult(req[r].question[2], o))
       IN  /\ resp' = [resp EXCEPT ![r] = response]
           /\ history' = HistoryAfter(response.status)
    /\ req' = [req EXCEPT ![r].st = "done", ![r].outcome = o]
    /\ UNCHANGED <<entry, envKey, proc, telemetryCalls, telemetryResult, openai_client,
                   calls, rootResp>>

\* The client reads the response; the slot is free for the next request.
ClientReceives(r) ==
    /\ req[r].st = "done"
    /\ req' = [req EXCEPT ![r] = IdleReq]
    /\ resp' = [resp EXCEPT ![r] = NoResp]
    /\ calls' = [calls EXCEPT ![r] = << >>]
    /\ UNCHANGED <<entry, envKey, proc, telemetryCalls, telemetryResult, openai_client,
                   history, rootResp>>

\* GET /
GetRoot ==
    /\ proc = "serving"
    /\ LoopFree
    /\ rootResp = NoResp
    /\ rootResp' = Root
    /\ UNCHANGED <<entry, envKey, proc, telemetryCalls, telemetryResult, openai_client,
                   req, calls, resp, history>>

\* The client reads the response of GET /.
ClientReceivesRoot ==
    /\ rootResp # NoResp
    /\ rootResp' = NoResp
    /\ UNCHANGED <<entry, envKey, proc, telemetryCalls, telemetryResult, openai_client,
                   req, calls, resp, history>>

Next ==
    \/ \E ok \in BOOLEAN : ConfigureTelemetry(ok)
    \/ StartFromApp
    \/ StartFromMain
    \/ \E r \in Reqs, body \in Bodies : ClientPosts(r, body)
    \/ \E r \in Reqs : RejectPost(r)
    \/ \E r \in Reqs : HandlePost(r)
    \/ \E r \in Reqs, o \in Outcomes : ProviderResponds(r, o)
    \/ \E r \in Reqs : ClientReceives(r)
    \/ GetRoot
    \/ ClientReceivesRoot

Spec == Init /\ [][Next]_vars

\* ------------------------------------------------------------------ claims
Answered(r) == req[r].st = "done" /\ req[r].outcome.kind # "none"

Raised(r, c) ==
    Answered(r) /\ req[r].outcome.kind = "raise" /\ req[r].outcome.cls = c

NoChoice(r) ==
    Answered(r) /\ req[r].outcome.kind = "return" /\ Len(req[r].outcome.choices) = 0

Succeeded(r) ==
    Answered(r) /\ req[r].outcome.kind = "return" /\ Len(req[r].outcome.choices) > 0

CallIssued(r) == req[r].st = "calling" \/ Answered(r)

UserContent(r) == calls[r][1].messages[2].content

Contains(s, sub) ==
    \E i \in 0..(Len(s) - Len(sub)) : SubSeq(s, i + 1, i + Len(sub)) = sub

\* C1: a POST /ask-coffee whose provider call fails is answered 401 for an
\* authentication failure, 429 for a rate-limit failure, 500 for any other
\* API error and 500 for any other failure; the most specific kind wins and
\* no failure gives a status outside {401, 429, 500}.
C1_StatusByFailureKind ==
    \A r \in Reqs :
        /\ Raised(r, "AuthenticationError") => resp[r].status = 401
        /\ Raised(r, "RateLimitError") => resp[r].status = 429
        /\ \A c \in RaisedClasses \ {"AuthenticationError", "RateLimitError"} :
               Raised(r, c) => resp[r].status = 500
        /\ NoChoice(r) => resp[r].status = 500
        /\ (Answered(r) /\ ~Succeeded(r)) => resp[r].status \in {401, 429, 500}

C1_Witness ==
    \E r, s \in Reqs :
        /\ Raised(r, "AuthenticationError") /\ resp[r].status = 401
        /\ Raised(s, "RateLimitError") /\ resp[s].status = 429

\* C2: a POST /ask-coffee answered 500 carries in its detail text the
\* message of the failure behind it: the provider's message for an API
\* error, the failure's own message otherwise.
C2_DetailCarriesMessage ==
    \A r \in Reqs :
        (Answered(r) /\ resp[r].status = 500) =>
            LET o == req[r].outcome
                message == IF o.kind = "raise" THEN o.msg ELSE IndexErrorMsg
            IN  Contains(resp[r].body.detail, message)

C2_Witness ==
    \E r, s \in Reqs :
        /\ Raised(r, "BadRequestError") /\ resp[r].status = 500
        /\ NoChoice(s) /\ resp[s].status = 500

\* C3: when the question of the body is absent, null or the empty string,
\* the question put into the prompt and the question of the success
\* envelope are the default text.
C3_DefaultQuestion ==
    \A r \in Reqs :
        (CallIssued(r) /\ req[r].body \in {<<"absent">>, <<"null">>, <<"str", << >>>>}) =>
            /\ UserContent(r) = PromptHead \o DefaultQuestion \o PromptTail
            /\ Succeeded(r) => resp[r].body.question = DefaultQuestion

C3_Witness ==
    \E r, s \in Reqs :
        /\ Succeeded(r) /\ req[r].body = <<"str", << >>>>
        /\ Succeeded(s) /\ req[s].body = <<"absent">>

\* C4: when the question of the body is a non-empty string q, whitespace
\* only included, and the provider call succeeds, the question of the
\* response is q unchanged and q is what the prompt holds.
C4_QuestionVerbatim ==
    \A r \in Reqs :
        (Succeeded(r) /\ req[r].body[1] = "str" /\ Len(req[r].body[2]) > 0) =>
            /\ resp[r].body.question = req[r].body[2]
            /\ UserContent(r) = PromptHead \o req[r].body[2] \o PromptTail

C4_Witness ==
    \E r, s \in Reqs :
        /\ Succeeded(r) /\ req[r].body = <<"str", <<" ">>>>
        /\ Succeeded(s) /\ req[s].body = <<"str", <<" ", "a", "b", " ">>>>

\* C5: when the provider call returns text T the response is 200 and its
\* envelope has ai_response = T, status = "success", the fixed persona
\* label, and model_used = the model the call of this request named.
C5_SuccessEnvelope ==
    \A r \in Reqs :
        Succeeded(r) =>
            /\ resp[r].status = 200
            /\ resp[r].body.ai_response = req[r].outcome.choices[1]
            /\ resp[r].body.status = "success"
            /\ resp[r].body.coffee_expert = "U+2615 AI Barista"
            /\ resp[r].body.model_used = calls[r][1].model

C5_Witness ==
    \E r \in Reqs : Succeeded(r) /\ resp[r].body.ai_response = <<"str", <<"t">>>>

\* C6: whatever the credential and whatever provider calls came before, a
\* GET / is answered 200 with the {message, description, example} body and
\* issues no provider call.
C6_RootAlways200 ==
    [][(rootResp = NoResp /\ rootResp' # NoResp) =>
          /\ rootResp'.status = 200
          /\ DOMAIN rootResp'.body = {"message", "description", "example"}
          /\ calls' = calls
          /\ req' = req]_vars

C6_Witness ==
    /\ rootResp # NoResp
    /\ rootResp.status = 200
    /\ history = "failed"
    /\ openai_client.api_key = PlaceholderKey

C8_ServesAfterFailures ==
    /\ history # "clean" => (proc = "serving" /\ openai_client = NewClient(envKey))
    /\ \A r \in Reqs :
           Succeeded(r) => (resp[r].status = 200 /\ resp[r].body.status = "success")
    /\ rootResp # NoResp => rootResp.status = 200

C8_Witness ==
    /\ history = "recovered"
    /\ \E r \in Reqs : Succeeded(r) /\ resp[r].status = 200
    /\ rootResp # NoResp

\* C9: the telemetry setup is invoked exactly once per process start, before
\* the HTTP surface serves, and the listener starts whether it succeeds or
\* fails.
C9_TelemetryOnceBeforeServing == proc = "serving" => telemetryCalls = 1

\* C10: with requests in flight together, each response is what the handler
\* gives for that request's own body and own provider outcome; two requests
\* with the same body and outcome get the same response, each call belongs
\* to its own request, and the client handle is the one made at startup.
SoloResponse(body, o) ==
    HTTPResponse(
        AskCoffeeResult(EffectiveQuestion(EndpointQuestion(ParseCoffeeQuestion(body))), o))

C10_RequestsIndependent ==
    /\ proc = "serving" => openai_client = NewClient(envKey)
    /\ \A r \in Reqs :
           /\ Answered(r) => resp[r] = SoloResponse(req[r].body, req[r].outcome)
           /\ \A i \in 1..Len(calls[r]) : calls[r][i].rid = r
           /\ CallIssued(r) =>
                  UserContent(r) =
                      CoffeePrompt(EffectiveQuestion(EndpointQuestion(
                          ParseCoffeeQuestion(req[r].body))))
    /\ \A r, s \in Reqs :
           (Answered(r) /\ Answered(s) /\ req[r].body = req[s].body
               /\ req[r].outcome = req[s].outcome) => resp[r] = resp[s]

C10_Witness ==
    \E r, s \in Reqs :
        /\ s < r
        /\ req[s].st = "sent"
        /\ Answered(r)
        /\ req[r].body # req[s].body

====
